---- MODULE Spec2Model ----
(***************************************************************************)
(* Model of the two command-line programs of the repository:               *)
(*   prepare_batch.py  (the Manifest Builder)                              *)
(*   submit_job.py     (the Batch Submitter)                               *)
(* Strings whose content matters (file names, paths) are sequences of      *)
(* one-character strings.  The remote file service and the operating       *)
(* system are the environment: their answers are chosen with \E.           *)
(***************************************************************************)
EXTENDS Naturals, Integers, Sequences, FiniteSets, TLC

\* ---------------------------------------------------------------- bounds
MaxEntries == 2     \* directory entries of the pdfs/ directory
MaxPolls == 1       \* status polls counted per upload (the count saturates)
MaxNameLen == 4     \* length of the file names enumerated for classification

\* ------------------------------------------------------------- constants
PDF_DIR == <<"p", "d", "f", "s">>
JSONL_FILE == <<"b", "a", "t", "c", "h", "_", "r", "e", "q", "u", "e", "s", "t", "s", ".", "j", "s", "o", "n", "l">>
SEP == "/"
PdfSuffix == <<".", "p", "d", "f">>
QP_PROMPT == "Extract the full exam paper structure."
MEMO_PROMPT == "Extract the marking guidelines."
qp_schema == [type |-> "OBJECT", properties |-> {"subject", "year", "session", "total_marks", "groups"}]
memo_schema == [type |-> "OBJECT", properties |-> {"meta", "sections"}]

\* Values of os.environ.get("GEMINI_API_KEY"): "None" stands for Python's None.
KeyValues == {"None", "", "key"}
Falsy(v) == v \in {"None", ""}

\* States of a remote file handle (genai File.State).
FileStates == {"PROCESSING", "ACTIVE", "FAILED", "STATE_UNSPECIFIED"}

\* ------------------------------------------------------ string functions
\* str.upper() on one character of the modelled alphabet
UpperChar(c) ==
    CASE c = "m" -> "M"
      [] c = "e" -> "E"
      [] c = "o" -> "O"
      [] c = "g" -> "G"
      [] c = "q" -> "Q"
      [] c = "p" -> "P"
      [] c = "d" -> "D"
      [] c = "f" -> "F"
      [] c = "s" -> "S"
      [] c = "t" -> "T"
      [] c = "x" -> "X"
      [] OTHER -> c

\* str.upper()
Upper(s) == [k \in 1..Len(s) |-> UpperChar(s[k])]

\* Python's  needle in hay  on strings
Contains(hay, needle) ==
    \E k \in 0..(Len(hay) - Len(needle)) :
        \A j \in 1..Len(needle) : hay[k + j] = needle[j]

\* os.path.join(a, b) for a relative b
Join(a, b) == a \o <<SEP>> \o b

\* os.path.basename(p): what follows the last separator
LastSep(p) ==
    IF \E k \in 1..Len(p) : p[k] = SEP
    THEN CHOOSE k \in 1..Len(p) : p[k] = SEP /\ \A j \in (k + 1)..Len(p) : p[j] # SEP
    ELSE 0
Basename(p) == SubSeq(p, LastSep(p) + 1, Len(p))

\* fnmatch of a directory entry against "*.pdf" as glob does it: the name
\* ends with .pdf and is not a hidden (dot) file
MatchesPdf(name) ==
    /\ Len(name) >= Len(PdfSuffix)
    /\ SubSeq(name, Len(name) - Len(PdfSuffix) + 1, Len(name)) = PdfSuffix
    /\ name[1] # "."

\* glob.glob(os.path.join(PDF_DIR, "*.pdf")) over a directory enumerated as dir
Glob(dir) ==
    LET matched == SelectSeq(dir, MatchesPdf)
    IN  [k \in 1..Len(matched) |-> Join(PDF_DIR, matched[k])]

\* ------------------------------------------------------- request records
\* is_memo of create_batch_request (IsMemoNoUpper: the test without upper())
IsMemoNoUpper(filename) == Contains(filename, <<"M", "E", "M", "O">>) \/ Contains(filename, <<"M", "G">>)
IsMemo(filename) ==
    \/ Contains(Upper(filename), <<"M", "E", "M", "O">>)
    \/ Contains(Upper(filename), <<"M", "G">>)

Uri(id) == <<"files", id>>
NoneUri == <<>>

\* the request dict of one document (BuildRequestFullPath: custom_id taken
\* from the path instead of its basename)
BuildRequestFullPath(pdf_path, uri) ==
    [custom_id |-> pdf_path,
     prompt |-> IF ~IsMemo(Basename(pdf_path)) THEN QP_PROMPT ELSE MEMO_PROMPT,
     mime_type |-> "application/pdf",
     file_uri |-> uri,
     response_mime_type |-> "application/json",
     response_schema |-> IF IsMemo(Basename(pdf_path)) THEN memo_schema ELSE qp_schema]
BuildRequest(pdf_path, uri) ==
    LET filename == Basename(pdf_path)
        is_memo == IsMemo(filename)
    IN  [custom_id |-> filename,
         prompt |-> IF ~is_memo THEN QP_PROMPT ELSE MEMO_PROMPT,
         mime_type |-> "application/pdf",
         file_uri |-> uri,
         response_mime_type |-> "application/json",
         response_schema |-> IF is_memo THEN memo_schema ELSE qp_schema]

\* ------------------------------------------------------------ environment
\* Directory entries the pdfs/ directory may hold.
QpName == <<"Q", "P", ".", "p", "d", "f">>
MemoName == <<"M", "E", "M", "O", ".", "p", "d", "f">>
MgName == <<"m", "g", "1", ".", "p", "d", "f">>
TxtName == <<"m", "g", ".", "t", "x", "t">>
HiddenName == <<".", "x", ".", "p", "d", "f">>
EntryPool == {QpName, MemoName, MgName, TxtName, HiddenName}

\* A directory enumeration: distinct entries, in the order the OS lists them.
Directories ==
    {d \in UNION {[1..n -> EntryPool] : n \in 0..MaxEntries} :
        \A a, b \in 1..Len(d) : a # b => d[a] # d[b]}

\* A record left in batch_requests.jsonl by an earlier run.
StaleRecord == BuildRequest(Join(PDF_DIR, <<"o", "l", "d", ".", "p", "d", "f">>), Uri(0))

\* batch_requests.jsonl before the run: absent, empty, or holding old lines.
\* A line is the JSON text of one request; it is kept as the request itself.
PriorFiles ==
    {[exists |-> FALSE, lines |-> <<>>],
     [exists |-> TRUE, lines |-> <<>>],
     [exists |-> TRUE, lines |-> <<StaleRecord>>]}

VARIABLES
    apiKey,      \* API_KEY, read from the environment by both programs
    dir,         \* enumeration of the pdfs/ directory
    jsonl0,      \* batch_requests.jsonl as it was before any program ran
    jsonl,       \* the file batch_requests.jsonl
    net,         \* every network call issued so far, in order
    nextId,      \* next file id the remote storage hands out
    bPc,         \* prepare_batch.py: position
    files,       \* prepare_batch.py: files (the glob result)
    idx,         \* create_batch_request: 1-based position of the for loop
    file_ref,    \* upload_file: file_ref
    file_uri,    \* create_batch_request: file_uri, the result of upload_file
    polls,       \* upload_file: polls of the current upload (saturating)
    raised,      \* upload_file: the except branch was taken in the current call
    requests,    \* create_batch_request: requests
    returned,    \* upload_file calls that have returned: result, last handle, raised
    bExit,       \* prepare_batch.py: exit status
    bCount,      \* prepare_batch.py: count in the final message
    sPc,         \* submit_job.py: position
    sExit,       \* submit_job.py: exit status
    sErr,        \* submit_job.py: the exception raised, "" if none
    cName,       \* a file name handed to the request construction on its own
    cReq         \* the request built for cName: <<>> before, <<request>> after

envVars == <<apiKey, dir, jsonl0>>
bVars == <<bPc, files, idx, file_ref, file_uri, polls, raised, requests, returned, bExit, bCount>>
sVars == <<sPc, sExit, sErr>>
kVars == <<cName, cReq>>
vars == <<apiKey, dir, jsonl0, jsonl, net, nextId, bPc, files, idx, file_ref, file_uri, polls, raised,
          requests, returned, bExit, bCount, sPc, sExit, sErr, cName, cReq>>

NoRef == [id |-> 0, state |-> "NONE"]
NotRunning(pc) == pc \in {"idle", "exited"}
Call(who, op, path, id) == [who |-> who, op |-> op, path |-> path, id |-> id]

Init ==
    /\ apiKey \in KeyValues
    /\ dir \in Directories
    /\ jsonl0 \in PriorFiles
    /\ jsonl = jsonl0
    /\ net = <<>>
    /\ nextId = 1
    /\ bPc = "idle"
    /\ files = <<>>
    /\ idx = 1
    /\ file_ref = NoRef
    /\ file_uri = NoneUri
    /\ polls = 0
    /\ raised = FALSE
    /\ requests = <<>>
    /\ returned = <<>>
    /\ bExit = -1
    /\ bCount = -1
    /\ sPc = "idle"
    /\ sExit = -1
    /\ sErr = ""
    /\ cName = <<>>
    /\ cReq = <<>>

\* ------------------------------------------------- prepare_batch.py steps
\* setup(): exit(1) without the key, else configure the client
BSetup ==
    /\ bPc = "idle"
    /\ NotRunning(sPc)
    /\ IF Falsy(apiKey)
       THEN bPc' = "exited" /\ bExit' = 1
       ELSE bPc' = "glob" /\ bExit' = bExit
    /\ UNCHANGED <<envVars, kVars, jsonl, net, nextId, sVars, files, idx, file_ref, file_uri,
                   polls, raised, requests, returned, bCount>>

\* files = glob.glob(...); entry of create_batch_request: requests = []
BGlob ==
    /\ bPc = "glob"
    /\ files' = Glob(dir)
    /\ requests' = <<>>
    /\ idx' = 1
    /\ bPc' = "loop"
    /\ UNCHANGED <<envVars, kVars, jsonl, net, nextId, sVars, file_ref, file_uri, polls,
                   raised, returned, bExit, bCount>>

\* for i, pdf_path in enumerate(pdf_files): next document, or leave the loop
LoopDone(i, pdf_files) == i > Len(pdf_files)

BLoop ==
    /\ bPc = "loop"
    /\ bPc' = IF LoopDone(idx, files) THEN "write" ELSE "upload"
    /\ UNCHANGED <<envVars, kVars, jsonl, net, nextId, sVars, files, idx, file_ref, file_uri,
                   polls, raised, requests, returned, bExit, bCount>>

\* the network log keeps the first MaxPolls polls of one upload
LogPoll(log, n, call) == IF n < MaxPolls THEN Append(log, call) ELSE log
CountPoll(n) == IF n < MaxPolls THEN n + 1 ELSE n

\* upload_file: genai.upload_file(path=path, mime_type="application/pdf");
\* the call raises (except branch: return None) or answers a handle
BUpload ==
    /\ bPc = "upload"
    /\ net' = Append(net, Call("builder", "upload_file", files[idx], 0))
    /\ polls' = 0
    /\ \E r \in FileStates \cup {"raise"} :
        IF r = "raise"
        THEN /\ file_uri' = NoneUri
             /\ file_ref' = NoRef
             /\ raised' = TRUE
             /\ bPc' = "got"
             /\ UNCHANGED nextId
        ELSE /\ file_ref' = [id |-> nextId, state |-> r]
             /\ nextId' = nextId + 1
             /\ raised' = FALSE
             /\ bPc' = "poll"
             /\ UNCHANGED file_uri
    /\ UNCHANGED <<envVars, kVars, jsonl, sVars, files, idx, requests, returned, bExit, bCount>>

\* upload_file: the condition of  while file_ref.state.name == "PROCESSING"
\* (StillProcessingNever: a loop that does not wait)
StillProcessingNever(ref) == FALSE
StillProcessing(ref) == ref.state = "PROCESSING"

\* upload_file: one turn of the while loop where genai.get_file answers
\* PROCESSING again
BPollStay ==
    /\ bPc = "poll"
    /\ StillProcessing(file_ref)
    /\ net' = LogPoll(net, polls, Call("builder", "get_file", <<>>, file_ref.id))
    /\ polls' = CountPoll(polls)
    /\ UNCHANGED <<envVars, kVars, jsonl, nextId, sVars, bPc, files, idx, file_ref, file_uri,
                   raised, requests, returned, bExit, bCount>>

\* upload_file: one turn of the loop where genai.get_file answers another
\* state, or raises (except branch: return None)
BPollLeave ==
    /\ bPc = "poll"
    /\ StillProcessing(file_ref)
    /\ net' = LogPoll(net, polls, Call("builder", "get_file", <<>>, file_ref.id))
    /\ polls' = CountPoll(polls)
    /\ \E r \in (FileStates \ {"PROCESSING"}) \cup {"raise"} :
        IF r = "raise"
        THEN /\ file_uri' = NoneUri
             /\ raised' = TRUE
             /\ bPc' = "got"
             /\ UNCHANGED file_ref
        ELSE /\ file_ref' = [file_ref EXCEPT !.state = r]
             /\ UNCHANGED <<file_uri, raised, bPc>>
    /\ UNCHANGED <<envVars, kVars, jsonl, nextId, sVars, files, idx, requests, returned,
                   bExit, bCount>>

\* upload_file after the loop: None unless the handle is ACTIVE, else its uri
UploadResult(ref) == IF ref.state # "ACTIVE" THEN NoneUri ELSE Uri(ref.id)

BReturn ==
    /\ bPc = "poll"
    /\ ~StillProcessing(file_ref)
    /\ file_uri' = UploadResult(file_ref)
    /\ bPc' = "got"
    /\ UNCHANGED <<envVars, kVars, jsonl, net, nextId, sVars, files, idx, file_ref, polls,
                   raised, requests, returned, bExit, bCount>>

\* create_batch_request: the for loop moves to the next document whatever
\* upload_file returned (NextIndexRetry: a loop that tries a failed one again)
NextIndexRetry(i, uri) == IF uri = NoneUri THEN i ELSE i + 1
NextIndex(i, uri) == i + 1

\* create_batch_request: if not file_uri: continue; else append the request
AddRequest(reqs, pdf_path, uri) ==
    IF uri = NoneUri THEN reqs ELSE Append(reqs, BuildRequest(pdf_path, uri))

BAppend ==
    /\ bPc = "got"
    /\ returned' = Append(returned, [uri |-> file_uri, ref |-> file_ref, raised |-> raised])
    /\ requests' = AddRequest(requests, files[idx], file_uri)
    /\ idx' = NextIndex(idx, file_uri)
    /\ bPc' = "loop"
    /\ UNCHANGED <<envVars, kVars, jsonl, net, nextId, sVars, files, file_ref, file_uri, polls,
                   raised, bExit, bCount>>

\* with open("batch_requests.jsonl", "w") as f: one line per request
\* (WriteManifestAppend: the file opened with "a")
WriteManifestAppend(old, reqs) == [exists |-> TRUE, lines |-> old.lines \o reqs]
WriteManifest(old, reqs) == [exists |-> TRUE, lines |-> reqs]

\* __main__ after create_batch_request: write the file, report, end
BWrite ==
    /\ bPc = "write"
    /\ jsonl' = WriteManifest(jsonl, requests)
    /\ bCount' = Len(requests)
    /\ bExit' = 0
    /\ bPc' = "exited"
    /\ UNCHANGED <<envVars, kVars, net, nextId, sVars, files, idx, file_ref, file_uri, polls,
                   raised, requests, returned>>

BuilderStep == BSetup \/ BGlob \/ BLoop \/ BUpload \/ BReturn \/ BAppend \/ BWrite

\* --------------------------------------------------- submit_job.py steps
\* submit_batch_curl: without the key, a message and return
SStart ==
    /\ sPc = "idle"
    /\ NotRunning(bPc)
    /\ IF Falsy(apiKey)
       THEN sPc' = "exited" /\ sExit' = 0
       ELSE sPc' = "cmd" /\ sExit' = sExit
    /\ UNCHANGED <<envVars, kVars, jsonl, net, nextId, bVars, sErr>>

\* upload_cmd = [...]: os.path.getsize(JSONL_FILE), evaluated before the try
\* statement; a missing file raises FileNotFoundError and ends the process
SBuildCmd ==
    /\ sPc = "cmd"
    /\ IF jsonl.exists
       THEN sPc' = "curl" /\ UNCHANGED <<sExit, sErr>>
       ELSE sPc' = "exited" /\ sExit' = 1 /\ sErr' = "FileNotFoundError"
    /\ UNCHANGED <<envVars, kVars, jsonl, net, nextId, bVars>>

\* res = subprocess.run(upload_cmd, ...): curl posts the start of an upload
\* session, or the curl program cannot be started and run raises
SCurlStart ==
    /\ sPc = "curl"
    /\ \E started \in BOOLEAN :
        IF started
        THEN /\ net' = Append(net, Call("submitter", "curl_upload_start", JSONL_FILE, 0))
             /\ sPc' = "headers"
             /\ UNCHANGED sErr
        ELSE /\ sErr' = "FileNotFoundError"
             /\ sPc' = "except"
             /\ UNCHANGED net
    /\ UNCHANGED <<envVars, kVars, jsonl, nextId, bVars, sExit>>

\* upload_url = res.headers.get(...): a CompletedProcess has no attribute
\* headers, so this statement raises AttributeError whatever curl answered
SHeaders ==
    /\ sPc = "headers"
    /\ sErr' = "AttributeError"
    /\ sPc' = "except"
    /\ UNCHANGED <<envVars, kVars, jsonl, net, nextId, bVars, sExit>>

\* The statements after res.headers inside the try (genai.upload_file of the
\* manifest, its polling loop, the curl call that creates the batch job) are
\* never executed: control always leaves the try at SCurlStart or SHeaders.

\* except Exception as e: the message, then the function and the process end
SExcept ==
    /\ sPc = "except"
    /\ sPc' = "exited"
    /\ sExit' = 0
    /\ UNCHANGED <<envVars, kVars, jsonl, net, nextId, bVars, sErr>>

Next ==
    \/ BSetup \/ BGlob \/ BLoop \/ BUpload \/ BPollStay \/ BPollLeave \/ BReturn
    \/ BAppend \/ BWrite
    \/ SStart \/ SBuildCmd \/ SCurlStart \/ SHeaders \/ SExcept

Spec == Init /\ [][Next]_vars

\* A run of prepare_batch.py on its own, with the key set and no manifest
\* yet.  Its single thread keeps running, and a handle that is polled
\* eventually leaves PROCESSING or a poll raises.
FairInit == Init /\ ~Falsy(apiKey) /\ ~jsonl0.exists
BuilderNext ==
    \/ BSetup \/ BGlob \/ BLoop \/ BUpload \/ BPollStay \/ BPollLeave \/ BReturn
    \/ BAppend \/ BWrite
FairSpec ==
    FairInit /\ [][BuilderNext]_vars /\ WF_vars(BuilderStep) /\ WF_vars(BPollLeave)

\* ------------------------------------- request construction on one name
NameAlphabet == {"M", "E", "O", "G", "m", "e", "o", "g", "x"}
\* every file name of 1..MaxNameLen letters followed by .pdf
FileNames ==
    {n \o PdfSuffix : n \in UNION {[1..k -> NameAlphabet] : k \in 1..MaxNameLen}}

InitClassify ==
    /\ apiKey = "key"
    /\ dir = <<>>
    /\ jsonl0 = [exists |-> FALSE, lines |-> <<>>]
    /\ jsonl = jsonl0
    /\ net = <<>>
    /\ nextId = 1
    /\ bPc = "idle"
    /\ files = <<>>
    /\ idx = 1
    /\ file_ref = NoRef
    /\ file_uri = NoneUri
    /\ polls = 0
    /\ raised = FALSE
    /\ requests = <<>>
    /\ returned = <<>>
    /\ bExit = -1
    /\ bCount = -1
    /\ sPc = "idle"
    /\ sExit = -1
    /\ sErr = ""
    /\ cName \in FileNames
    /\ cReq = <<>>

\* the body of the for loop of create_batch_request after a successful
\* upload, for the one document pdfs/<cName>
Classify ==
    /\ cReq = <<>>
    /\ \E id \in 1..2 : cReq' = <<BuildRequest(Join(PDF_DIR, cName), Uri(id))>>
    /\ UNCHANGED <<envVars, cName, jsonl, net, nextId, bVars, sVars>>

SpecClassify == InitClassify /\ [][Classify]_vars

\* ------------------------------------------------------------ vocabulary
\* names of the discovered documents, as the directory lists them
Discovered == SelectSeq(dir, MatchesPdf)
IsBuilderUpload(c) == c.who = "builder" /\ c.op = "upload_file"
\* paths of the builder's upload calls, in the order issued
UploadedPaths ==
    LET calls == SelectSeq(net, IsBuilderUpload)
    IN  [k \in 1..Len(calls) |-> calls[k].path]
\* an upload succeeded: no call raised and the handle ended ACTIVE
Succeeded(e) == ~e.raised /\ e.ref.state = "ACTIVE"
SuccessUris ==
    LET ok == SelectSeq(returned, Succeeded)
    IN  [k \in 1..Len(ok) |-> Uri(ok[k].ref.id)]
UrisOf(lines) == [k \in 1..Len(lines) |-> lines[k].file_uri]
BuilderFinished == bPc = "exited" /\ bExit = 0

\* letters equal up to case
SameLetter(a, b) ==
    \/ a = b
    \/ {a, b} \in {{"M", "m"}, {"E", "e"}, {"O", "o"}, {"G", "g"}}
\* word occurs in name, compared letter by letter up to case
OccursIgnoringCase(name, word) ==
    \E k \in 0..(Len(name) - Len(word)) :
        \A j \in 1..Len(word) : SameLetter(name[k + j], word[j])
NamesMemo(name) ==
    \/ OccursIgnoringCase(name, <<"M", "E", "M", "O">>)
    \/ OccursIgnoringCase(name, <<"M", "G">>)

\* ---------------------------------------------------------------- claims
\* C1: the manifest file left by a finished builder run holds exactly one
\* record per document whose upload succeeded, in discovery order, none for
\* a failed upload and nothing from before the run; the reported count is
\* the number of records (0 and an empty file when nothing was discovered).
C1_ManifestIsSuccesses ==
    BuilderFinished =>
        /\ jsonl.exists
        /\ Len(returned) = Len(Discovered)
        /\ UrisOf(jsonl.lines) = SuccessUris
        /\ bCount = Len(SuccessUris)
        /\ (Discovered = <<>> => jsonl.lines = <<>> /\ bCount = 0)

\* a run over old file content with one failed and one successful upload
C1_Witness ==
    /\ BuilderFinished
    /\ jsonl0.lines = <<StaleRecord>>
    /\ jsonl.lines # <<>>
    /\ Len(jsonl.lines) < Len(returned)
    /\ \E k \in 1..Len(net) : IsBuilderUpload(net[k])

\* C2: the custom_id of every request is the file name of the document it
\* was built from, unchanged, and no two requests share a custom_id.
C2_CustomIdIsFilename ==
    LET Good(reqs) ==
            /\ \A k \in 1..Len(reqs) :
                \E i \in 1..Len(returned) :
                    /\ returned[i].uri = reqs[k].file_uri
                    /\ reqs[k].custom_id = Discovered[i]
            /\ \A k, l \in 1..Len(reqs) :
                k # l => reqs[k].custom_id # reqs[l].custom_id
    IN  /\ Good(requests)
        /\ (BuilderFinished => Good(jsonl.lines))

C2_Witness ==
    /\ BuilderFinished
    /\ Len(jsonl.lines) >= 2
    /\ jsonl.lines[1].custom_id = Discovered[1]

\* C3: a request carries the memo schema and the memo prompt exactly when
\* its file name contains MEMO or MG in any letter case, and otherwise the
\* question-paper schema and prompt; the two are never of different kinds.
C3_Classification ==
    \A k \in 1..Len(cReq) :
        IF NamesMemo(cName)
        THEN cReq[k].response_schema = memo_schema /\ cReq[k].prompt = MEMO_PROMPT
        ELSE cReq[k].response_schema = qp_schema /\ cReq[k].prompt = QP_PROMPT

\* a lower-case mg in the middle of a name, classified as a memo
C3_Witness ==
    /\ cReq # <<>>
    /\ cName = <<"x", "m", "g", "x">> \o PdfSuffix
    /\ cReq[1].response_schema = memo_schema

\* C4: without the key each program ends before any network call and with a
\* nonzero exit status.  (The claim as stated; submit_job.py ends with 0.)
C4_NoKeyNonzeroExit ==
    apiKey = "None" =>
        /\ net = <<>>
        /\ (bPc = "exited" => bExit # 0)
        /\ (sPc = "exited" => sExit # 0)

\* the run of the submitter the claims C5, C7 and C9 are about: key set,
\* manifest present, curl available
SubmitterRanToEnd ==
    /\ sPc = "exited"
    /\ ~Falsy(apiKey)
    /\ jsonl.exists
    /\ sErr # "FileNotFoundError"
IsSubmitterCall(c, op) == c.who = "submitter" /\ c.op = op
CallsAt(op) == {k \in 1..Len(net) : IsSubmitterCall(net[k], op)}

\* C5: a submitter run with key and manifest uploads the manifest and then
\* issues exactly one create-batch-job call, never the call before the
\* upload.  (The claim as stated; the run ends at res.headers.)
C5_UploadThenOneJob ==
    SubmitterRanToEnd =>
        /\ Cardinality(CallsAt("curl_batches")) = 1
        /\ \A j \in CallsAt("curl_batches") :
            \E u \in CallsAt("upload_file") : u < j

C9_SubmitterExitsZero ==
    (sPc = "exited" /\ ~Falsy(apiKey)) => sExit = 0

\* C8: a failed upload (the upload raises, a poll raises, the handle ends
\* in a state other than ACTIVE) stays inside upload_file: the documents are
\* uploaded one time each in discovery order, the failed one never again,
\* and with the key set the run ends with status 0 and a manifest of the
\* successes only.
C8_FailuresAreSkipped ==
    /\ Len(UploadedPaths) <= Len(files)
    /\ \A k \in 1..Len(UploadedPaths) : UploadedPaths[k] = files[k]
    /\ (bPc = "exited" /\ ~Falsy(apiKey)) =>
        /\ bExit = 0
        /\ Len(UploadedPaths) = Len(Discovered)
        /\ jsonl.exists
        /\ Len(jsonl.lines) = Len(SuccessUris)
        /\ \A i \in 1..Len(returned) :
            ~Succeeded(returned[i]) =>
                \A k \in 1..Len(jsonl.lines) : jsonl.lines[k].custom_id # Discovered[i]

\* a finished run whose first upload ended FAILED after a poll and whose
\* second, later one succeeded and is the only record
C8_Witness ==
    /\ BuilderFinished
    /\ Len(returned) = 2
    /\ ~returned[1].raised /\ returned[1].ref.state = "FAILED"
    /\ Succeeded(returned[2])
    /\ Len(jsonl.lines) = 1
    /\ jsonl.lines[1].custom_id = Discovered[2]

\* uploads started and not yet returned
InProgress ==
    Len(UploadedPaths) - Len(returned) - (IF bPc = "got" THEN 1 ELSE 0)

\* the safety half of C10, with the raising call allowed for
C10_Safety ==
    /\ (bPc = "got" => raised \/ file_ref.state # "PROCESSING")
    /\ InProgress \in {0, 1}
    /\ BuilderFinished =>
        /\ Len(returned) = Len(Discovered)
        /\ Len(UploadedPaths) = Len(Discovered)
        /\ InProgress = 0

\* a run past setup ends, with the manifest written
C10_Terminates ==
    (bPc = "glob") ~> (BuilderFinished /\ jsonl.exists /\ jsonl.lines = requests)

\* C10 (amended): upload_file returns only after the handle has left
\* PROCESSING or a call to the remote service raised; when every polled
\* handle eventually leaves PROCESSING or its poll raises, the builder run
\* ends after writing the manifest, never with more than one upload in
\* progress, and writes only after every upload has returned.
C10_WaitsAndTerminates == []C10_Safety /\ C10_Terminates

\* a finished run in which one upload was polled MaxPolls times and more
\* before it ended ACTIVE, and another was given up on a raising poll
C10_Witness ==
    /\ BuilderFinished
    /\ polls = MaxPolls
    /\ \E i, j \in 1..Len(returned) :
        /\ returned[i].raised /\ returned[i].ref.state = "PROCESSING"
        /\ Succeeded(returned[j])

\* C10 as stated: upload_file returns only after the handle it obtained has
\* left PROCESSING.
C10_ReturnsOnlyOncePastProcessing ==
    (bPc = "got" /\ file_ref # NoRef) => file_ref.state # "PROCESSING"

====
